---- MODULE Spec2Model ----
(***************************************************************************)
(* Model of stardustlib.StarDust: a working table (self.db) filtered by    *)
(* value and by grain type, a backup table (self._db) used by reset, the   *)
(* column resolver header_ratio, the extraction return_ratios and the pure *)
(* helper create_db_iso.                                                   *)
(*                                                                         *)
(* An isotope label is given as the sequence of its atoms.  An atom is a    *)
(* substring that is either the separator "-" or contains no "-", so that  *)
(* str.split("-") acts on the atoms exactly as it acts on the characters.  *)
(* Column names and database names are strings.                            *)
(***************************************************************************)
EXTENDS Integers, Sequences, FiniteSets, TLC

VARIABLES db, _db, loaded, last

vars == <<db, _db, loaded, last>>

(* ---------------------------------------------------------------------- *)
(* Bounds                                                                  *)
(* ---------------------------------------------------------------------- *)

\* largest number of rows of the loaded csv file
MaxRows == 3

\* largest number of atoms of a label handed to create_db_iso directly
MaxLabelLen == 3

(* ---------------------------------------------------------------------- *)
(* Strings                                                                 *)
(* ---------------------------------------------------------------------- *)

Range(s) == {s[i] : i \in DOMAIN s}

SeqsUpTo(S, n) == UNION {[1..k -> S] : k \in 0..n}

LabelAtoms == {"Si", "28", "-"}

\* every label of at most MaxLabelLen atoms
AllLabels == SeqsUpTo(LabelAtoms, MaxLabelLen)

Si28 == <<"Si", "-", "28">>
Si29 == <<"Si", "-", "29">>
Si30 == <<"Si", "-", "30">>

\* the isotope pairs the table operations are called with: two pairs that
\* name ratios of the tables below, a pair that names no column, and a pair
\* whose first label has no separator
IsoPairs ==
    { <<Si29, Si28>>, <<Si30, Si28>>, <<Si28, Si29>>, << <<"Si">>, Si28 >> }

\* result of a call: exc = "" when it returns normally, val is what it returns
Return(v) == [exc |-> "", val |-> v]
Raise(e) == [exc |-> e, val |-> ""]

\* str.split("-"): the pieces between the separators, empty pieces included
RECURSIVE split(_)
split(s) ==
    IF \A i \in DOMAIN s : s[i] # "-"
    THEN << s >>
    ELSE LET i == CHOOSE k \in DOMAIN s :
                      s[k] = "-" /\ \A j \in 1..(k - 1) : s[j] # "-"
         IN  << SubSeq(s, 1, i - 1) >> \o split(SubSeq(s, i + 1, Len(s)))

\* the string a sequence of atoms spells
RECURSIVE join(_)
join(s) == IF s = <<>> THEN "" ELSE s[1] \o join(Tail(s))

(* ---------------------------------------------------------------------- *)
(* create_db_iso                                                           *)
(* ---------------------------------------------------------------------- *)

\* create_db_iso made to validate the label before it builds the name
create_db_iso_strict(iso) ==
    LET iso_split == split(iso)
    IN  IF Len(iso_split) # 2 \/ iso_split[1] = <<>> \/ iso_split[2] = <<>>
        THEN Raise("FormatError")
        ELSE Return(join(iso_split[2]) \o join(iso_split[1]))

\* iso_split[1] + iso_split[0]; iso_split[1] raises IndexError when the list
\* has a single element
create_db_iso(iso) ==
    LET iso_split == split(iso)
    IN  IF Len(iso_split) < 2
        THEN Raise("IndexError")
        ELSE Return(join(iso_split[2]) \o join(iso_split[1]))

(* ---------------------------------------------------------------------- *)
(* Tables                                                                  *)
(* ---------------------------------------------------------------------- *)

\* a numeric cell, and the missing cell (NaN)
Num(n) == [isna |-> FALSE, num |-> n]
NaN == [isna |-> TRUE, num |-> 0]

\* column names as the csv header writes them
PGDType == "PGD Type"
R1 == "29Si/28Si"
R2 == "30Si/28Si"
Delta(r) == "d(" \o r \o ")"
Err(h) == "err[" \o h \o "]"

\* the headers of the csv files the model loads:
\*   1: R1 as delta and as raw ratio, the delta with its error; R2 raw
\*   2: raw ratios with their errors
\*   3: R1 as delta with its error; R2 raw without an err[...] column
Schemas ==
    { <<PGDType, R1, Delta(R1), Err(Delta(R1)), R2, Err(R2)>>,
      <<PGDType, R1, Err(R1), R2, Err(R2)>>,
      <<PGDType, Delta(R1), Err(Delta(R1)), R2>> }

\* the cells of the rows of the csv files, by column
ColData(c) ==
    CASE c = PGDType        -> << "M", "X", "M", "AB", "M" >>
      [] c = R1             -> << Num(1), Num(2), NaN, Num(0), Num(1) >>
      [] c = Err(R1)        -> << Num(1), NaN, Num(1), Num(0), Num(2) >>
      [] c = Delta(R1)      -> << Num(2), Num(1), NaN, Num(0), Num(1) >>
      [] c = Err(Delta(R1)) -> << Num(0), NaN, Num(1), Num(2), Num(1) >>
      [] c = R2             -> << Num(1), Num(2), Num(0), NaN, Num(1) >>
      [] c = Err(R2)        -> << Num(1), Num(0), Num(2), Num(1), NaN >>

FileRow(columns, i) ==
    [id |-> i,
     cells |-> [c \in Range(columns) |->
                   ColData(c)[((i - 1) % Len(ColData(c))) + 1]]]

\* pd.read_csv(filepath, index_col=0): a file of n rows with the given header
read_csv(columns, n) ==
    [columns |-> columns, rows |-> [i \in 1..n |-> FileRow(columns, i)]]

\* DataFrame.copy(deep=True): an equal table that shares nothing
copy(table) == table

\* table[mask]: the rows the mask keeps, in order, under the same columns; a
\* mask (a boolean Series on the index of the table) is given as the set of
\* the row ids at which it is True
Keep(table, mask) ==
    [columns |-> table.columns,
     rows |-> SelectSeq(table.rows, LAMBDA r : r.id \in mask)]

(* ---------------------------------------------------------------------- *)
(* header_ratio                                                            *)
(* ---------------------------------------------------------------------- *)

none == "none"

\* header_ratio with the raw ratio tested before the delta
header_ratio_raw_first(table, iso1, iso2) ==
    LET header == Range(table.columns)
        i1 == create_db_iso(iso1)
        i2 == create_db_iso(iso2)
    IN  IF i1.exc # "" THEN Raise(i1.exc)
        ELSE IF i2.exc # "" THEN Raise(i2.exc)
        ELSE LET hdr_ratio == i1.val \o "/" \o i2.val
                 hdr_delta == "d(" \o hdr_ratio \o ")"
             IN  IF hdr_ratio \in header THEN Return(<<hdr_ratio, FALSE>>)
                 ELSE IF hdr_delta \in header THEN Return(<<hdr_delta, TRUE>>)
                 ELSE Return(<<none, FALSE>>)

header_ratio(table, iso1, iso2) ==
    LET header == Range(table.columns)
        i1 == create_db_iso(iso1)
        i2 == create_db_iso(iso2)
    IN  IF i1.exc # "" THEN Raise(i1.exc)
        ELSE IF i2.exc # "" THEN Raise(i2.exc)
        ELSE LET hdr_ratio == i1.val \o "/" \o i2.val
                 hdr_delta == "d(" \o hdr_ratio \o ")"
             IN  IF hdr_delta \in header THEN Return(<<hdr_delta, TRUE>>)
                 ELSE IF hdr_ratio \in header THEN Return(<<hdr_ratio, FALSE>>)
                 ELSE Return(<<none, FALSE>>)

(* ---------------------------------------------------------------------- *)
(* filter_value                                                            *)
(* ---------------------------------------------------------------------- *)

\* the values filter_value is called with: finite numbers, and float("inf")
Number(n) == [isfinite |-> TRUE, num |-> n, name |-> ""]
Inf == [isfinite |-> FALSE, num |-> 0, name |-> "inf"]
Values == {Number(1), Number(2), Inf}

\* comp_dict with the alias "=<" mapped to "<"
comp_dict_alias ==
    [c \in {"<", ">", "<=", "=<", ">=", "=>", "="} |->
        CASE c = "<"  -> "<"
          [] c = ">"  -> ">"
          [] c = "<=" -> "<="
          [] c = "=<" -> "<"
          [] c = ">=" -> ">="
          [] c = "=>" -> ">="
          [] c = "="  -> "=="]

comp_dict ==
    [c \in {"<", ">", "<=", "=<", ">=", "=>", "="} |->
        CASE c = "<"  -> "<"
          [] c = ">"  -> ">"
          [] c = "<=" -> "<="
          [] c = "=<" -> "<="
          [] c = ">=" -> ">="
          [] c = "=>" -> ">="
          [] c = "="  -> "=="]

\* the comparator strings filter_value is called with
Comparators == DOMAIN comp_dict \cup {"=="}

\* f"{value}": the digits of a finite number, the word inf (or nan) otherwise
Format(value) ==
    IF value.isfinite THEN [token |-> "NUMBER", num |-> value.num, name |-> ""]
    ELSE [token |-> "NAME", num |-> 0, name |-> value.name]

\* the names eval() can look up: the locals of filter_value and the globals
\* of the module
EvalNames ==
    {"self", "value", "iso1", "iso2", "comparator", "err", "hdr", "comp_dict",
     "Path", "Tuple", "np", "pd", "MODULE_PATH", "StarDust", "create_db_iso"}

\* Series <op> number, element by element; a comparison with NaN is False
Compare(cell, op, num) ==
    /\ ~cell.isna
    /\ CASE op = "<"  -> cell.num < num
         [] op = ">"  -> cell.num > num
         [] op = "<=" -> cell.num <= num
         [] op = ">=" -> cell.num >= num
         [] op = "==" -> cell.num = num

\* eval(f"self.db[hdr] {op} {value}"): the left operand self.db[hdr] is looked
\* up first, then the text of the value is evaluated, then they are compared;
\* the result is the set of row ids of the mask
\* EvalMask with a column that is not in the table compared as a column of
\* missing cells
EvalMask_lenient(table, hdr, op, text) ==
    IF hdr \notin Range(table.columns) THEN Return({})
    ELSE IF text.token = "NAME" /\ text.name \notin EvalNames THEN Raise("NameError")
    ELSE Return({ r.id : r \in { x \in Range(table.rows) :
                                     Compare(x.cells[hdr], op, text.num) } })

EvalMask(table, hdr, op, text) ==
    IF hdr \notin Range(table.columns) THEN Raise("KeyError")
    ELSE IF text.token = "NAME" /\ text.name \notin EvalNames THEN Raise("NameError")
    ELSE Return({ r.id : r \in { x \in Range(table.rows) :
                                     Compare(x.cells[hdr], op, text.num) } })

\* the outcome of a method: the exception it raised ("" for none), the
\* table it leaves in self.db and the value it returns
Done(table) == [exc |-> "", db |-> table, val |-> <<>>]
Fail(e, table) == [exc |-> e, db |-> table, val |-> <<>>]

\* filter_value with a comparator that is not in comp_dict taken as "=="
filter_value_default(table, value, iso1, iso2, comparator, err) ==
    LET h == header_ratio(table, iso1, iso2)
    IN  IF h.exc # "" THEN Fail(h.exc, table)
        ELSE LET hdr == IF err THEN "err[" \o h.val[1] \o "]" ELSE h.val[1]
                 op == IF comparator \in DOMAIN comp_dict
                       THEN comp_dict[comparator] ELSE "=="
                 m == EvalMask(table, hdr, op, Format(value))
             IN  IF m.exc # "" THEN Fail(m.exc, table)
                 ELSE Done(Keep(table, m.val))

filter_value(table, value, iso1, iso2, comparator, err) ==
    LET h == header_ratio(table, iso1, iso2)
    IN  IF h.exc # "" THEN Fail(h.exc, table)
        ELSE LET hdr == IF err THEN "err[" \o h.val[1] \o "]" ELSE h.val[1]
             IN  IF comparator \notin DOMAIN comp_dict
                 THEN Fail("ValueError", table)
                 ELSE LET m == EvalMask(table, hdr, comp_dict[comparator], Format(value))
                      IN  IF m.exc # "" THEN Fail(m.exc, table)
                          ELSE Done(Keep(table, m.val))

(* ---------------------------------------------------------------------- *)
(* filter_type                                                             *)
(* ---------------------------------------------------------------------- *)

\* Series.isin(values): the mask of the rows whose cell in the column is one
\* of the values
isin(table, column, values) ==
    { r.id : r \in { x \in Range(table.rows) : x.cells[column] \in Range(values) } }

\* a grain_type argument: a str, or a list of str
Str(s) == [isstr |-> TRUE, str |-> s, list |-> <<>>]
List(l) == [isstr |-> FALSE, str |-> "", list |-> l]

GrainTypes ==
    { Str("M"), Str("Z"), List(<<>>), List(<<"M">>), List(<<"M", "X">>),
      List(<<"Z">>), List(<<"AB", "Z">>) }

\* filter_type that keeps the "PGD Type" column alone
filter_type_series(table, grain_type) ==
    LET types == IF grain_type.isstr THEN <<grain_type.str>> ELSE grain_type.list
        kept == Keep(table, isin(table, PGDType, types)).rows
    IN  IF PGDType \notin Range(table.columns) THEN Fail("KeyError", table)
        ELSE Done([columns |-> <<PGDType>>,
                   rows |-> [i \in DOMAIN kept |->
                               [id |-> kept[i].id,
                                cells |-> [c \in {PGDType} |-> kept[i].cells[c]]]]])

\* filter_type without the isinstance branch: isin() refuses a str
filter_type_no_normalize(table, grain_type) ==
    IF PGDType \notin Range(table.columns) THEN Fail("KeyError", table)
    ELSE IF grain_type.isstr THEN Fail("TypeError", table)
    ELSE Done(Keep(table, isin(table, PGDType, grain_type.list)))

filter_type(table, grain_type) ==
    LET types == IF grain_type.isstr THEN <<grain_type.str>> ELSE grain_type.list
    IN  IF PGDType \notin Range(table.columns) THEN Fail("KeyError", table)
        ELSE Done(Keep(table, isin(table, PGDType, types)))

(* ---------------------------------------------------------------------- *)
(* reset                                                                   *)
(* ---------------------------------------------------------------------- *)

\* reset that keeps the header of the backup and none of its rows
reset_empty(backup) == Done([columns |-> backup.columns, rows |-> <<>>])

reset(backup) == Done(copy(backup))

(* ---------------------------------------------------------------------- *)
(* return_ratios                                                           *)
(* ---------------------------------------------------------------------- *)

\* df[name].to_numpy() on a frame whose columns are `names`, in that order:
\* a one-dimensional array when one column bears the name, and an array with
\* one entry per bearing column in each row when several do
to_numpy(df, names, name) ==
    LET pos == SelectSeq(<<1, 2, 3, 4>>, LAMBDA k : names[k] = name)
    IN  IF Len(pos) = 1
        THEN [ndim |-> 1, data |-> [i \in DOMAIN df |-> df[i][pos[1]].num]]
        ELSE [ndim |-> 2,
              data |-> [i \in DOMAIN df |-> [j \in DOMAIN pos |-> df[i][pos[j]].num]]]

return_ratios(table, isos1, isos2) ==
    LET hx == header_ratio(table, isos1[1], isos1[2])
        hy == header_ratio(table, isos2[1], isos2[2])
    IN  IF hx.exc # "" THEN Fail(hx.exc, table)
        ELSE IF hy.exc # "" THEN Fail(hy.exc, table)
        ELSE
          LET hdr_x == hx.val[1]
              hdr_y == hy.val[1]
              hdr_x_err == "err[" \o hdr_x \o "]"
              hdr_y_err == "err[" \o hdr_y \o "]"
              names == <<hdr_x, hdr_y, hdr_x_err, hdr_y_err>>
          IN  IF \E k \in DOMAIN names : names[k] \notin Range(table.columns)
              THEN Fail("KeyError", table)
              ELSE
                LET selected == [i \in DOMAIN table.rows |->
                                    [k \in DOMAIN names |-> table.rows[i].cells[names[k]]]]
                    NoneMissing(t) == \A k \in DOMAIN t : ~t[k].isna
                    df == SelectSeq(selected, NoneMissing)
                IN  [exc |-> "", db |-> table,
                     val |-> << to_numpy(df, names, hdr_x), to_numpy(df, names, hdr_y),
                                to_numpy(df, names, hdr_x_err),
                                to_numpy(df, names, hdr_y_err) >>]

(* ---------------------------------------------------------------------- *)
(* The object: construction and calls                                      *)
(* ---------------------------------------------------------------------- *)

\* `last` records the latest call: the method, its arguments, the exception
\* it raised, the value it returned and self.db as it was before the call.
\* `loaded` is the table read from the file at construction: an empty file or
\* one of MaxRows rows (tables of fewer rows arise from it by filtering).
\* Each action is one call; r is its outcome.

Init ==
    \E columns \in Schemas, n \in {0, MaxRows} :
        /\ loaded = read_csv(columns, n)
        /\ db = loaded
        /\ _db = copy(loaded)
        /\ last = [op |-> "__init__", args |-> <<>>, exc |-> "", val |-> <<>>,
                   pre |-> loaded]

FilterValue ==
    \E value \in Values, p \in IsoPairs, comparator \in Comparators, err \in BOOLEAN :
        \E r \in {filter_value(db, value, p[1], p[2], comparator, err)} :
            /\ db' = r.db
            /\ last' = [op |-> "filter_value",
                        args |-> [value |-> value, iso1 |-> p[1], iso2 |-> p[2],
                                  comparator |-> comparator, err |-> err],
                        exc |-> r.exc, val |-> r.val, pre |-> db]
            /\ UNCHANGED <<_db, loaded>>

FilterType ==
    \E grain_type \in GrainTypes :
        \E r \in {filter_type(db, grain_type)} :
            /\ db' = r.db
            /\ last' = [op |-> "filter_type", args |-> [grain_type |-> grain_type],
                        exc |-> r.exc, val |-> r.val, pre |-> db]
            /\ UNCHANGED <<_db, loaded>>

HeaderRatio ==
    \E p \in IsoPairs :
        \E r \in {header_ratio(db, p[1], p[2])} :
            /\ last' = [op |-> "header_ratio", args |-> [iso1 |-> p[1], iso2 |-> p[2]],
                        exc |-> r.exc, val |-> r.val, pre |-> db]
            /\ UNCHANGED <<db, _db, loaded>>

Reset ==
    \E r \in {reset(_db)} :
        /\ db' = r.db
        /\ last' = [op |-> "reset", args |-> <<>>, exc |-> r.exc, val |-> r.val,
                    pre |-> db]
        /\ UNCHANGED <<_db, loaded>>

ReturnRatios ==
    \E isos1 \in IsoPairs, isos2 \in IsoPairs :
        \E r \in {return_ratios(db, isos1, isos2)} :
            /\ db' = r.db
            /\ last' = [op |-> "return_ratios", args |-> [isos1 |-> isos1, isos2 |-> isos2],
                        exc |-> r.exc, val |-> r.val, pre |-> db]
            /\ UNCHANGED <<_db, loaded>>

CreateDbIso ==
    \E iso \in AllLabels :
        \E r \in {create_db_iso(iso)} :
            /\ last' = [op |-> "create_db_iso", args |-> [iso |-> iso],
                        exc |-> r.exc, val |-> r.val, pre |-> db]
            /\ UNCHANGED <<db, _db, loaded>>

Next ==
    \/ FilterValue
    \/ FilterType
    \/ HeaderRatio
    \/ Reset
    \/ ReturnRatios

Spec == Init /\ [][Next]_vars

\* the pure helper alone, applied to every label of the bounded set
NextCodec == CreateDbIso

SpecCodec == Init /\ [][NextCodec]_vars

(* ---------------------------------------------------------------------- *)
(* Vocabulary of the properties                                            *)
(* ---------------------------------------------------------------------- *)

ValidComparators == {"<", ">", "<=", "=<", ">=", "=>", "="}

\* the positions of the separators of a label
SepAt(label) == {i \in DOMAIN label : label[i] = "-"}

Least(S) == CHOOSE i \in S : \A j \in S : i <= j

\* a label "<Element>-<MassNumber>": exactly one separator, with something
\* before it and something after it
WellFormed(label) ==
    /\ Cardinality(SepAt(label)) = 1
    /\ label[1] # "-"
    /\ label[Len(label)] # "-"

\* what stands before the first separator, and what stands between the first
\* separator and the second (or the end of the label)
FirstPiece(label) == SubSeq(label, 1, Least(SepAt(label)) - 1)
SecondPiece(label) ==
    LET i == Least(SepAt(label))
        rest == SepAt(label) \ {i}
        j == IF rest = {} THEN Len(label) + 1 ELSE Least(rest)
    IN  SubSeq(label, i + 1, j - 1)

\* MassNumber + Element of a well-formed label
DbName(label) == join(SecondPiece(label)) \o join(FirstPiece(label))

\* number < v, number > v and number = v for a value v that may be infinite
Below(n, v) == IF v.isfinite THEN n < v.num ELSE v.name = "inf"
Above(n, v) == v.isfinite /\ n > v.num
Equal(n, v) == v.isfinite /\ n = v.num

\* (cell c v); a missing cell satisfies no comparison
Satisfies(cell, c, v) ==
    /\ ~cell.isna
    /\ CASE c = "<" -> Below(cell.num, v)
         [] c = ">" -> Above(cell.num, v)
         [] c \in {"<=", "=<"} -> Below(cell.num, v) \/ Equal(cell.num, v)
         [] c \in {">=", "=>"} -> Above(cell.num, v) \/ Equal(cell.num, v)
         [] c = "=" -> Equal(cell.num, v)

\* the column a filter_value call is about in table t
Target(t, a) ==
    LET hdr == header_ratio(t, a.iso1, a.iso2).val[1]
    IN  IF a.err THEN Err(hdr) ELSE hdr

\* the row satisfies the condition of the filter_value arguments a, whose
\* target column is c
HoldsOn(c, a, r) ==
    /\ c \in DOMAIN r.cells
    /\ Satisfies(r.cells[c], a.comparator, a.value)

\* the rows of table t that satisfy the condition of the arguments a
Satisfying(t, a) ==
    LET Test(c) == SelectSeq(t.rows, LAMBDA r : HoldsOn(c, a, r))
    IN  Test(Target(t, a))

\* the pair of the call resolves to a column of table t
ResolvesToColumn(t, iso1, iso2) ==
    /\ header_ratio(t, iso1, iso2).exc = ""
    /\ header_ratio(t, iso1, iso2).val[1] \in Range(t.columns)

\* the pair of the call resolves to the sentinel
ResolvesToNone(t, iso1, iso2) ==
    /\ header_ratio(t, iso1, iso2).exc = ""
    /\ header_ratio(t, iso1, iso2).val[1] = none
    /\ none \notin Range(t.columns)

RowSet(t) == Range(t.rows)

(* ---------------------------------------------------------------------- *)
(* C1                                                                      *)
(* ---------------------------------------------------------------------- *)

\* C1: the backup table is the loaded table in every state, and after a
\* reset() - whatever calls came before it, a reset() included - the working
\* table is the table present right after construction
C1_ResetRestores ==
    /\ _db = loaded
    /\ last.op = "reset" => (db = loaded /\ RowSet(db) = RowSet(loaded))

\* a reset that followed filters which had dropped rows
C1_Witness ==
    /\ last.op = "reset"
    /\ Len(last.pre.rows) < Len(db.rows)

(* ---------------------------------------------------------------------- *)
(* C2                                                                      *)
(* ---------------------------------------------------------------------- *)

\* C2: in every state the working table has the columns of the backup table
\* and each of its rows is a row of the backup table
C2_WorkingWithinBackup ==
    /\ db.columns = _db.columns
    /\ RowSet(db) \subseteq RowSet(_db)

\* a filter left some but not all rows of the backup table
C2_Witness ==
    /\ last.op \in {"filter_value", "filter_type"}
    /\ last.exc = ""
    /\ RowSet(db) # {}
    /\ RowSet(db) # RowSet(_db)

(* ---------------------------------------------------------------------- *)
(* C3                                                                      *)
(* ---------------------------------------------------------------------- *)

\* C3: after filter_value with a valid comparator and an isotope pair that
\* resolves to an existing column, for every value, the working table is made
\* of exactly the rows it had before whose target cell satisfies the
\* comparison; rows with a missing target cell are excluded
C3_FilterByValueExact ==
    ( /\ last.op = "filter_value"
      /\ last.args.comparator \in ValidComparators
      /\ ResolvesToColumn(last.pre, last.args.iso1, last.args.iso2) )
    => /\ db.columns = last.pre.columns
       /\ db.rows = Satisfying(last.pre, last.args)

(* ---------------------------------------------------------------------- *)
(* C4                                                                      *)
(* ---------------------------------------------------------------------- *)

\* C4 as stated: filter_value with a comparator outside the valid ones raises
\* ValueError and leaves the working table as it was
C4_InvalidComparatorValueError ==
    (last.op = "filter_value" /\ last.args.comparator \notin ValidComparators)
    => (last.exc = "ValueError" /\ db = last.pre)

\* C4 amended: filter_value with a comparator outside the valid ones leaves
\* the working table as it was and raises ValueError when both isotope labels
\* contain a separator, and IndexError (from the label conversion, which runs
\* first) when one of them contains none
C4_InvalidComparatorFails ==
    (last.op = "filter_value" /\ last.args.comparator \notin ValidComparators)
    => /\ db = last.pre
       /\ last.exc = IF /\ "-" \in Range(last.args.iso1)
                        /\ "-" \in Range(last.args.iso2)
                     THEN "ValueError" ELSE "IndexError"

\* an invalid comparator was refused with ValueError on a table with rows
C4_Witness ==
    /\ last.op = "filter_value"
    /\ last.args.comparator \notin ValidComparators
    /\ last.exc = "ValueError"
    /\ ResolvesToColumn(last.pre, last.args.iso1, last.args.iso2)
    /\ last.pre.rows # <<>>

(* ---------------------------------------------------------------------- *)
(* C5                                                                      *)
(* ---------------------------------------------------------------------- *)

\* C5: when a filter_value call that returned (condition A, on table P) is
\* followed by another that returns (condition B), the working table is made
\* of exactly the rows of P that satisfy A and B; it is what B followed by A
\* gives from P; and with B = A the second call changes nothing
C5_FilterCumulative ==
    [][ ( /\ last.op = "filter_value" /\ last.exc = ""
          /\ last'.op = "filter_value" /\ last'.exc = "" )
        => LET P == last.pre
               A == last.args
               B == last'.args
               BthenA ==
                   filter_value(
                       filter_value(P, B.value, B.iso1, B.iso2, B.comparator, B.err).db,
                       A.value, A.iso1, A.iso2, A.comparator, A.err)
           IN  /\ last'.pre = db
               /\ db'.columns = P.columns
               /\ db'.rows = SelectSeq(P.rows, LAMBDA r :
                                 r \in Range(Satisfying(P, A)) /\ r \in Range(Satisfying(P, B)))
               /\ BthenA.exc = "" /\ BthenA.db = db'
               /\ (A = B => db' = db) ]_vars

\* a filter_value call dropped some of the rows that an earlier filter_value
\* call on the loaded table had kept
C5_Witness ==
    /\ last.op = "filter_value"
    /\ last.exc = ""
    /\ 0 < Len(db.rows)
    /\ Len(db.rows) < Len(last.pre.rows)
    /\ Len(last.pre.rows) < Len(loaded.rows)
    /\ \E v \in Values, p \in IsoPairs, c \in Comparators, e \in BOOLEAN :
           filter_value(loaded, v, p[1], p[2], c, e) = Done(last.pre)

(* ---------------------------------------------------------------------- *)
(* C6                                                                      *)
(* ---------------------------------------------------------------------- *)

\* C6: header_ratio on two well-formed labels, with R the ratio name built
\* from their database names, returns (d(R), True) when d(R) is a column,
\* (R, False) when d(R) is not and R is, ("none", False) without an error
\* when neither is; it changes neither table
C6_DeltaFirst ==
    ( /\ last.op = "header_ratio"
      /\ WellFormed(last.args.iso1) /\ WellFormed(last.args.iso2) )
    => LET R == DbName(last.args.iso1) \o "/" \o DbName(last.args.iso2)
           header == Range(last.pre.columns)
       IN  /\ last.exc = ""
           /\ last.val = IF Delta(R) \in header THEN <<Delta(R), TRUE>>
                         ELSE IF R \in header THEN <<R, FALSE>>
                         ELSE <<"none", FALSE>>
           /\ db = last.pre
           /\ _db = loaded

\* the delta column was returned by a table that has the raw column too
C6_Witness ==
    /\ last.op = "header_ratio"
    /\ last.exc = ""
    /\ last.val = <<Delta(R1), TRUE>>
    /\ R1 \in Range(db.columns)
    /\ db.rows # <<>>

(* ---------------------------------------------------------------------- *)
(* C7                                                                      *)
(* ---------------------------------------------------------------------- *)

\* C7 as stated: create_db_iso returns MassNumber + Element for a well-formed
\* label and fails, returning no string, for every label that has not exactly
\* one separator or that has an empty part
C7_MalformedLabelFails ==
    last.op = "create_db_iso"
    => IF WellFormed(last.args.iso)
       THEN last.exc = "" /\ last.val = DbName(last.args.iso)
       ELSE last.exc # ""

\* C7 amended: create_db_iso returns MassNumber + Element for a well-formed
\* label; it fails (IndexError) exactly for the labels without separator; for
\* every other label it returns what stands between the first and the second
\* separator (or the end) followed by what stands before the first separator,
\* be these empty or not
C7_OnlyNoSeparatorFails ==
    last.op = "create_db_iso"
    => /\ SepAt(last.args.iso) = {} => last.exc = "IndexError"
       /\ SepAt(last.args.iso) # {} =>
              /\ last.exc = ""
              /\ last.val = join(SecondPiece(last.args.iso))
                              \o join(FirstPiece(last.args.iso))
       /\ WellFormed(last.args.iso) => last.val = DbName(last.args.iso)

\* "Si-28" was converted to "28Si"
C7_Witness ==
    /\ last.op = "create_db_iso"
    /\ last.args.iso = <<"Si", "-", "28">>
    /\ last.exc = ""
    /\ last.val = "28Si"

(* ---------------------------------------------------------------------- *)
(* C8                                                                      *)
(* ---------------------------------------------------------------------- *)

\* C8: for isotope pairs that resolve to existing columns X and Y,
\* return_ratios returns the X, Y, err[X] and err[Y] values of exactly the
\* rows of the working table in which none of the four cells is missing, as
\* four sequences in row order, and leaves the working table unchanged
C8_ExtractComplete ==
    ( /\ last.op = "return_ratios"
      /\ ResolvesToColumn(last.pre, last.args.isos1[1], last.args.isos1[2])
      /\ ResolvesToColumn(last.pre, last.args.isos2[1], last.args.isos2[2]) )
    => LET X == header_ratio(last.pre, last.args.isos1[1], last.args.isos1[2]).val[1]
           Y == header_ratio(last.pre, last.args.isos2[1], last.args.isos2[2]).val[1]
           four == <<X, Y, Err(X), Err(Y)>>
           complete == SelectSeq(last.pre.rows, LAMBDA r :
                           \A k \in 1..4 : /\ four[k] \in DOMAIN r.cells
                                           /\ ~r.cells[four[k]].isna)
       IN  /\ last.exc = ""
           /\ \A k \in 1..4 :
                  /\ last.val[k].ndim = 1
                  /\ last.val[k].data =
                         [i \in DOMAIN complete |-> complete[i].cells[four[k]].num]
           /\ db = last.pre

(* ---------------------------------------------------------------------- *)
(* C9                                                                      *)
(* ---------------------------------------------------------------------- *)

\* C9: filter_type never fails and leaves exactly the rows of the working
\* table whose "PGD Type" is among the given types, a str s counting as the
\* list [s]: the call with s leaves what the call with [s] leaves
C9_FilterByTypeExact ==
    last.op = "filter_type"
    => LET g == last.args.grain_type
           T == IF g.isstr THEN {g.str} ELSE Range(g.list)
       IN  /\ last.exc = ""
           /\ db.columns = last.pre.columns
           /\ db.rows = SelectSeq(last.pre.rows, LAMBDA r : r.cells[PGDType] \in T)
           /\ g.isstr => filter_type(last.pre, List(<<g.str>>)) = Done(db)
           /\ T = {} => db.rows = <<>>

\* the str "M" kept some rows and dropped others
C9_Witness ==
    /\ last.op = "filter_type"
    /\ last.args.grain_type = Str("M")
    /\ 0 < Len(db.rows)
    /\ Len(db.rows) < Len(last.pre.rows)

(* ---------------------------------------------------------------------- *)
(* C10                                                                     *)
(* ---------------------------------------------------------------------- *)

\* C10: a call that raises leaves the working table as it was, and the backup
\* is the loaded table throughout; filter_value with a valid comparator and a
\* pair that resolves to "none" raises KeyError; a filter_value call that
\* returns has applied its condition to every row
C10_AllOrNothing ==
    /\ last.exc # "" => db = last.pre
    /\ _db = loaded
    /\ ( /\ last.op = "filter_value"
         /\ last.args.comparator \in ValidComparators
         /\ ResolvesToNone(last.pre, last.args.iso1, last.args.iso2) )
       => (last.exc = "KeyError" /\ db = last.pre)
    /\ (last.op = "filter_value" /\ last.exc = "")
       => db.rows = Satisfying(last.pre, last.args)

\* filter_value on err[none] raised KeyError on a table with rows
C10_Witness ==
    /\ last.op = "filter_value"
    /\ last.args.comparator \in ValidComparators
    /\ last.args.err
    /\ ResolvesToNone(last.pre, last.args.iso1, last.args.iso2)
    /\ last.exc = "KeyError"
    /\ db.rows # <<>>

====
